---- MODULE Spec2Model ----
(***************************************************************************)
(* schema-wash: the field locator (schemawash/utils.py), the record filter *)
(* (schemawash/filter_records.py), the cleaners                            *)
(* (schemawash/cleaner_functions.py) and, of schemawash/lib.py, the        *)
(* per-file worker `transform`, the orchestrator                           *)
(* `generate_schema_for_dataset` with `get_chunks` and `merge_schema_maps`,*)
(* and `sort_schema`.                                                      *)
(*                                                                         *)
(* JSON values are modelled as Python holds them after json parsing: a     *)
(* tagged value [t, v] with t the Python type.  Floats are left out.       *)
(***************************************************************************)
EXTENDS Integers, Sequences, FiniteSets, TLC

VARIABLES
    obj,          \* the record a function is applied to (mutated in place)
    obj0,         \* history: the record as it was before the call
    call,         \* the arguments of the call under examination
    ret,          \* the outcome of the call: nothing yet, a return, a raise
    pc,           \* transform: where the worker is in its code
    idx,          \* transform: how many records of the input file were read
    out_exists,   \* transform: whether a file exists at output_path
    out_content,  \* transform: the records held by the file at output_path
    empty_file,   \* transform: its local empty_file
    lines,        \* transform: its local lines
    schema_map,   \* transform: the records folded into its schema_map
    error_logs,   \* transform: schema_generator.error_logs
    opc,          \* orchestrator: where generate_schema_for_dataset is
    chunk_no,     \* orchestrator: its local c, counted from 1; 0 before the loop
    pool,         \* orchestrator: whether a ProcessPoolExecutor is open
    futures,      \* orchestrator: the files submitted to the open pool
    fut,          \* each file's future: its state and its result
    cur,          \* orchestrator: the file whose result is being handled
    merged_schema_map, \* orchestrator: its local merged_schema_map
    file_no,      \* orchestrator: its local i
    sum_lines,    \* orchestrator: its local lines
    progress,     \* the file count of the last "Progress:" line printed
    errors_txt,   \* the files named by the lines appended to errors.txt
    merge_errors, \* the files for which "merge_schema_maps error" was printed
    submitted,    \* history: every executor.submit so far, in order
    drained,      \* history: the futures as_completed has yielded, in order
    schema_json   \* schema.json: whether written, and from which schema map

wvars == <<pc, idx, out_exists, out_content, empty_file, lines, schema_map, error_logs>>

ovars == <<opc, chunk_no, pool, futures, fut, cur, merged_schema_map, file_no,
           sum_lines,
           progress, errors_txt, merge_errors, submitted, drained, schema_json>>

vars == <<obj, obj0, call, ret, wvars, ovars>>

(***************************************************************************)
(* Bounds of the model.                                                    *)
(***************************************************************************)
MaxPathLen == 3

MaxArrayLen == 2

MaxRecords == 2

(***************************************************************************)
(* Python values and the primitives the code uses on them.                 *)
(***************************************************************************)
Null == [t |-> "null", v |-> "None"]
JBool(b) == [t |-> "bool", v |-> b]
JInt(n) == [t |-> "int", v |-> n]
JStr(s) == [t |-> "str", v |-> s]
JList(s) == [t |-> "list", v |-> s]
JDict(f) == [t |-> "dict", v |-> f]

EmptyMap == [k \in {} |-> Null]

\* all mappings from a subset of the keys K to values of V, as dicts
DictsOver(K, V) == { JDict(f) : f \in UNION { [S -> V] : S \in SUBSET K } }

\* d with d[k] = x  (dict item assignment)
Put(f, k, x) == [y \in (DOMAIN f) \cup {k} |-> IF y = k THEN x ELSE f[y]]

\* bool(x): None, False, 0, "", [] and {} are falsy
PyTruthy(x) ==
    CASE x.t = "null" -> FALSE
      [] x.t = "bool" -> x.v
      [] x.t = "int"  -> x.v # 0
      [] x.t = "str"  -> x.v # ""
      [] x.t = "list" -> Len(x.v) > 0
      [] x.t = "dict" -> DOMAIN x.v # {}

IsNum(x) == x.t \in {"bool", "int"}

NumVal(x) == IF x.t = "bool" THEN (IF x.v THEN 1 ELSE 0) ELSE x.v

\* a == b: bool is a subclass of int (True == 1, False == 0); values of
\* other distinct types are unequal; lists and dicts compare member-wise
RECURSIVE PyEq(_, _)
PyEq(a, b) ==
    IF IsNum(a) /\ IsNum(b) THEN NumVal(a) = NumVal(b)
    ELSE IF a.t # b.t THEN FALSE
    ELSE IF a.t = "list"
         THEN /\ Len(a.v) = Len(b.v)
              /\ \A i \in 1..Len(a.v) : PyEq(a.v[i], b.v[i])
    ELSE IF a.t = "dict"
         THEN /\ DOMAIN a.v = DOMAIN b.v
              /\ \A k \in DOMAIN a.v : PyEq(a.v[k], b.v[k])
    ELSE a.v = b.v

\* d.get(k) on a dict d: the value, or None
PyGet(d, k) == IF k \in DOMAIN d.v THEN d.v[k] ELSE Null

(***************************************************************************)
(* Outcomes of a call.                                                     *)
(***************************************************************************)
NoRet == [kind |-> "none", val |-> Null, exc |-> ""]
Returned(x) == [kind |-> "return", val |-> x, exc |-> ""]
Raised(e) == [kind |-> "raise", val |-> Null, exc |-> e]

\* (None, None)
Absent == [target |-> Null, field |-> Null, at |-> <<>>]

\* (target, field); `at` is where in the record the target lives: the
\* returned target is a reference into the record, not a copy
Located(target, field, at) == [target |-> target, field |-> JStr(field), at |-> at]

\* no worker runs while a single function is examined
WorkerIdle ==
    /\ pc = "idle"
    /\ idx = 0
    /\ out_exists = FALSE
    /\ out_content = <<>>
    /\ empty_file = TRUE
    /\ lines = 0
    /\ schema_map = <<>>
    /\ error_logs = <<>>

\* no orchestrator runs while a function or a single worker is examined
OrchIdle ==
    /\ opc = "idle"
    /\ chunk_no = 0
    /\ pool = FALSE
    /\ futures = <<>>
    /\ fut = <<>>
    /\ cur = 0
    /\ merged_schema_map = <<>>
    /\ file_no = 1
    /\ sum_lines = 0
    /\ progress = 0
    /\ errors_txt = <<>>
    /\ merge_errors = {}
    /\ submitted = <<>>
    /\ drained = <<>>
    /\ schema_json = [written |-> FALSE, schema_map |-> <<>>]

(***************************************************************************)
(* utils.target_from_path                                                  *)
(***************************************************************************)
\* the loop over path[0:-1]
RECURSIVE walk(_, _, _, _)
walk(target, at, rest, last) ==
    IF rest = <<>> THEN Returned(Located(target, last, at))
    ELSE IF target.t # "dict" THEN Raised("AttributeError")
    ELSE LET nxt == PyGet(target, Head(rest)) IN
         IF ~PyTruthy(nxt) THEN Returned(Absent)
         ELSE walk(nxt, Append(at, Head(rest)), Tail(rest), last)

\* target_from_path without the test `path[0] in obj`
target_from_path_unchecked(o, path) ==
    LET p == IF path.t = "str" THEN <<path.v>> ELSE path.v IN
    IF Len(p) = 1 THEN Returned(Located(o, p[1], <<>>))
    ELSE IF Len(p) = 0 THEN Raised("IndexError")
    ELSE walk(o, <<>>, SubSeq(p, 1, Len(p) - 1), p[Len(p)])

target_from_path(o, path) ==
    LET p == IF path.t = "str" THEN <<path.v>> ELSE path.v IN
    IF Len(p) = 1
    THEN IF p[1] \in DOMAIN o.v THEN Returned(Located(o, p[1], <<>>))
         ELSE Returned(Absent)
    ELSE IF Len(p) = 0 THEN Raised("IndexError")
    ELSE walk(o, <<>>, SubSeq(p, 1, Len(p) - 1), p[Len(p)])

(***************************************************************************)
(* Inputs of the locator.                                                  *)
(***************************************************************************)
Keys == {"a", "b"}

PathStr(s) == [t |-> "str", v |-> s]
PathList(q) == [t |-> "list", v |-> q]

Paths ==
    { PathStr(k) : k \in Keys }
    \cup { PathList(q) : q \in UNION { [1..n -> Keys] : n \in 0..MaxPathLen } }

InnerDicts == DictsOver({"a"}, {Null, JInt(1)})

MidVals == {Null, JStr("x"), JInt(0), JList(<<JInt(1)>>)} \cup InnerDicts

MidDicts ==
    { JDict(f) : f \in UNION { [S -> MidVals] : S \in SUBSET {"a"} } }
    \cup { JDict(Put(f, "b", JStr("x"))) :
             f \in UNION { [S -> MidVals] : S \in SUBSET {"a"} } }

TopVals ==
    {Null, JStr(""), JStr("x"), JInt(1), JBool(FALSE), JBool(TRUE), JList(<<>>)}
    \cup MidDicts

LocRecords ==
    LET A == UNION { [S -> TopVals] : S \in SUBSET {"a"} } IN
    { JDict(f) : f \in A }
    \cup { JDict(Put(f, "b", x)) : f \in A, x \in {Null, JStr("x")} }

LocCall(path) ==
    [fn |-> "target_from_path", path |-> path, value |-> Null,
     desired |-> TRUE, keys |-> <<>>]

InitLocate ==
    /\ WorkerIdle
    /\ OrchIdle
    /\ obj \in LocRecords
    /\ obj0 = obj
    /\ call \in { LocCall(p) : p \in Paths }
    /\ ret = NoRet

CallTargetFromPath ==
    /\ call.fn = "target_from_path"
    /\ ret.kind = "none"
    /\ ret' = target_from_path(obj, call.path)
    /\ UNCHANGED <<obj, obj0, call, wvars, ovars>>

NextLocate == CallTargetFromPath

SpecLocate == InitLocate /\ [][NextLocate]_vars

(***************************************************************************)
(* Properties of the locator, stated from the record and the path alone.   *)
(***************************************************************************)
Segs(path) == IF path.t = "str" THEN <<path.v>> ELSE path.v

Front(q) == SubSeq(q, 1, Len(q) - 1)

Last(q) == q[Len(q)]

\* the value reached from o by following the keys q
RECURSIVE Follow(_, _)
Follow(o, q) == IF q = <<>> THEN o ELSE Follow(o.v[Head(q)], Tail(q))

\* every key of q, followed from o, is present and holds a non-empty mapping
RECURSIVE AllNonEmptyMappings(_, _)
AllNonEmptyMappings(o, q) ==
    \/ q = <<>>
    \/ /\ Head(q) \in DOMAIN o.v
       /\ LET x == o.v[Head(q)] IN
          /\ x.t = "dict"
          /\ DOMAIN x.v # {}
          /\ AllNonEmptyMappings(x, Tail(q))

LocateDone == call.fn = "target_from_path" /\ ret.kind # "none"

\* C4: for a multi-segment path with an intermediate segment that is
\* missing, falsy or not a mapping, target_from_path returns (None, None):
\* it neither raises nor returns a non-mapping container.
C4_BadIntermediateIsAbsent ==
    LocateDone =>
        LET p == Segs(call.path) IN
        (Len(p) >= 2 /\ ~AllNonEmptyMappings(obj, Front(p)))
            => ret = Returned(Absent)

\* C5: a single-segment path (or bare string) returns (record, key) when
\* the key is in the top-level record and (None, None) otherwise; a
\* multi-segment path whose intermediates are all present non-empty
\* mappings returns (the mapping reached, the last segment), whether or not
\* the last segment is a key of that mapping.
C5_Locate ==
    LocateDone =>
        LET p == Segs(call.path) IN
        /\ Len(p) = 1 =>
              ret = IF p[1] \in DOMAIN obj.v
                    THEN Returned(Located(obj, p[1], <<>>))
                    ELSE Returned(Absent)
        /\ (Len(p) >= 2 /\ AllNonEmptyMappings(obj, Front(p))) =>
              ret = Returned(Located(Follow(obj, Front(p)), Last(p), Front(p)))

\* C5 witness: a three-segment path through two non-empty mappings whose
\* last segment is not a key of the mapping reached, and a result returned.
C5_Witness ==
    /\ LocateDone
    /\ ret.kind = "return"
    /\ LET p == Segs(call.path) IN
       /\ Len(p) = 3
       /\ AllNonEmptyMappings(obj, Front(p))
       /\ Last(p) \notin DOMAIN Follow(obj, Front(p)).v

(***************************************************************************)
(* filter_records.filter_single_record                                     *)
(***************************************************************************)
\* True in [result == test for test in value]
AnyEq(result, tests) == \E i \in 1..Len(tests) : PyEq(result, tests[i])

\* filter_single_record returning the raw test, desired_test_result unused
filter_single_record_raw(o, path, value, desired_test_result) ==
    LET loc == target_from_path(o, path) IN
    IF loc.kind = "raise" THEN loc
    ELSE LET target == loc.val.target
             field  == loc.val.field
         IN  IF target.t # "dict" THEN Raised("AttributeError")
             ELSE LET result == PyGet(target, field.v)
                      test   == IF value.t = "list" THEN AnyEq(result, value.v)
                                ELSE PyEq(result, value)
                  IN  Returned(JBool(test))

filter_single_record(o, path, value, desired_test_result) ==
    LET loc == target_from_path(o, path) IN
    IF loc.kind = "raise" THEN loc
    ELSE LET target == loc.val.target
             field  == loc.val.field
         IN  \* target.get(field): only a dict has .get
             IF target.t # "dict" THEN Raised("AttributeError")
             ELSE LET result == PyGet(target, field.v)
                      test   == IF value.t = "list" THEN AnyEq(result, value.v)
                                ELSE PyEq(result, value)
                  IN  Returned(JBool(test = desired_test_result))

(***************************************************************************)
(* Inputs of the filter.                                                   *)
(***************************************************************************)
FilterValues ==
    { Null, JStr("x"), JStr(""), JInt(1), JInt(0), JBool(TRUE),
      JList(<<>>), JList(<<JStr("x"), JInt(1)>>), JList(<<Null>>),
      JList(<<JBool(FALSE), JStr("y")>>) }

FilterCall(path, value, desired) ==
    [fn |-> "filter_single_record", path |-> path, value |-> value,
     desired |-> desired, keys |-> <<>>]

InitFilter ==
    /\ WorkerIdle
    /\ OrchIdle
    /\ obj \in LocRecords
    /\ obj0 = obj
    /\ call \in { FilterCall(p, x, d) : p \in Paths, x \in FilterValues, d \in BOOLEAN }
    /\ ret = NoRet

CallFilterSingleRecord ==
    /\ call.fn = "filter_single_record"
    /\ ret.kind = "none"
    /\ ret' = filter_single_record(obj, call.path, call.value, call.desired)
    /\ UNCHANGED <<obj, obj0, call, wvars, ovars>>

NextFilter == CallFilterSingleRecord

SpecFilter == InitFilter /\ [][NextFilter]_vars

(***************************************************************************)
(* Properties of the filter.                                               *)
(***************************************************************************)
FilterDone == call.fn = "filter_single_record" /\ ret.kind # "none"

\* the path leads, through present non-empty mappings, to a key that is
\* present in the mapping reached
Resolves(o, path) ==
    LET p == Segs(path) IN
    /\ Len(p) >= 1
    /\ AllNonEmptyMappings(o, Front(p))
    /\ Last(p) \in DOMAIN Follow(o, Front(p)).v

\* equality of JSON values with no coercion between types
ExactEq(a, b) == a = b

\* equality as Python's == decides it on the values a filter compares: the
\* same JSON value, or two numbers of the same magnitude with true counted
\* as 1 and false as 0
NumericEq(a, b) ==
    \/ a = b
    \/ /\ a.t \in {"bool", "int"}
       /\ b.t \in {"bool", "int"}
       /\ (IF a.t = "bool" THEN (IF a.v THEN 1 ELSE 0) ELSE a.v)
            = (IF b.t = "bool" THEN (IF b.v THEN 1 ELSE 0) ELSE b.v)

RawTestExact(resolved, value) ==
    IF value.t = "list" THEN \E i \in 1..Len(value.v) : ExactEq(resolved, value.v[i])
    ELSE ExactEq(resolved, value)

RawTestNumeric(resolved, value) ==
    IF value.t = "list" THEN \E i \in 1..Len(value.v) : NumericEq(resolved, value.v[i])
    ELSE NumericEq(resolved, value)

\* C1 as stated: when the path resolves to a key present in the record,
\* filter_single_record returns (raw_test == desired_test_result), raw_test
\* being exact equality of the resolved value with value (membership when
\* value is a list), with no coercion across JSON types.
C1_ExactEquality ==
    (FilterDone /\ Resolves(obj, call.path)) =>
        ret = Returned(JBool(RawTestExact(Follow(obj, Segs(call.path)), call.value)
                              = call.desired))

\* C1 amended: when the path resolves to a key present in the record,
\* filter_single_record returns (raw_test == desired_test_result), raw_test
\* being Python's ==, under which true equals 1 and false equals 0
\* (membership under that equality when value is a list); flipping
\* desired_test_result flips the outcome.
C1_PythonEquality ==
    (FilterDone /\ Resolves(obj, call.path)) =>
        /\ ret = Returned(JBool(RawTestNumeric(Follow(obj, Segs(call.path)), call.value)
                                 = call.desired))
        /\ filter_single_record(obj, call.path, call.value, ~call.desired)
             = Returned(JBool(~ret.val.v))

\* C1 witness: a list-valued filter with desired_test_result false on a
\* nested key that is present, the resolved value being a member of the
\* list, so the filter has returned false.
C1_Witness ==
    /\ FilterDone
    /\ Resolves(obj, call.path)
    /\ Len(Segs(call.path)) = 2
    /\ call.value.t = "list"
    /\ RawTestNumeric(Follow(obj, Segs(call.path)), call.value)
    /\ ~call.desired
    /\ ret = Returned(JBool(FALSE))

\* C3: when the path does not resolve (the locator returns (None, None)),
\* filter_single_record raises nothing and evaluates the spec with the
\* resolved value taken as null.
C3_AbsentIsNull ==
    (FilterDone /\ target_from_path(obj, call.path) = Returned(Absent)) =>
        ret = Returned(JBool(RawTestExact(Null, call.value) = call.desired))

(***************************************************************************)
(* cleaner_functions: remove_nulls_from_list_field, nested_array_to_dict   *)
(***************************************************************************)
\* the record o with container[field] = x, the container being the mapping
\* found in o at the keys `at` (the target returned by target_from_path is a
\* reference to it)
RECURSIVE SetAt(_, _, _, _)
SetAt(o, at, field, x) ==
    IF at = <<>> THEN JDict(Put(o.v, field, x))
    ELSE JDict([o.v EXCEPT ![Head(at)] = SetAt(o.v[Head(at)], Tail(at), field, x)])

\* the characters of the strings that occur in the inputs
Chars(s) ==
    CASE s = ""   -> <<>>
      [] s = "x"  -> <<JStr("x")>>
      [] s = "xy" -> <<JStr("x"), JStr("y")>>

\* the keys of a mapping as a sequence; Python yields them in insertion
\* order, which is not kept here: the mappings iterated have at most one key
RECURSIVE KeySeq(_)
KeySeq(K) ==
    IF K = {} THEN <<>>
    ELSE LET k == CHOOSE y \in K : TRUE IN <<JStr(k)>> \o KeySeq(K \ {k})

\* iter(x) is defined for lists, strings and dicts; not for None, bool, int
Iterable(x) == x.t \in {"list", "str", "dict"}

PyIter(x) ==
    CASE x.t = "list" -> x.v
      [] x.t = "str"  -> Chars(x.v)
      [] x.t = "dict" -> KeySeq(DOMAIN x.v)

NotNone(x) == x # Null

\* the outcome of a cleaner and the record as it leaves it
Effect(out, o) == [out |-> out, obj |-> o]

remove_nulls_from_list_field(o, path) ==
    LET loc == target_from_path(o, path) IN
    IF loc.kind = "raise" THEN Effect(loc, o)
    ELSE LET target == loc.val.target
             field  == loc.val.field
         IN  IF ~PyTruthy(target) THEN Effect(Returned(Null), o)
             ELSE IF target.t # "dict" THEN Effect(Raised("AttributeError"), o)
             ELSE LET got   == PyGet(target, field.v)
                      value == IF PyTruthy(got) THEN got ELSE JList(<<>>)
                  IN  IF ~Iterable(value) THEN Effect(Raised("TypeError"), o)
                      ELSE Effect(Returned(Null),
                                  SetAt(o, loc.val.at, field.v,
                                        JList(SelectSeq(PyIter(value), NotNone))))

Min(a, b) == IF a <= b THEN a ELSE b

\* the comprehension over every key, None standing in past the end of item
ZipDict_padded(keys, item) ==
    [k \in { keys[j] : j \in 1..Len(keys) } |->
        LET j == CHOOSE j \in 1..Len(keys) :
                   keys[j] = k /\ \A i \in 1..Len(keys) : keys[i] = k => i <= j
        IN  IF j <= Len(item) THEN item[j] ELSE Null]

\* {k: v for k, v in zip(keys, item)}: pairs up to the shorter length, a
\* later pair replacing an earlier one with the same key
ZipDict(keys, item) ==
    LET n == Min(Len(keys), Len(item)) IN
    [k \in { keys[j] : j \in 1..n } |->
        item[CHOOSE j \in 1..n : keys[j] = k /\ \A i \in 1..n : keys[i] = k => i <= j]]

nested_array_to_dict(o, path, keys) ==
    LET loc == target_from_path(o, path) IN
    IF loc.kind = "raise" THEN Effect(loc, o)
    ELSE LET target == loc.val.target
             field  == loc.val.field
         IN  IF target.t # "dict" THEN Effect(Raised("AttributeError"), o)
             ELSE LET old_array == PyGet(target, field.v) IN
                  IF ~Iterable(old_array) THEN Effect(Raised("TypeError"), o)
                  ELSE LET items == PyIter(old_array) IN
                       IF \E i \in 1..Len(items) : items[i].t # "list"
                       THEN Effect(Raised("AssertionError"), o)
                       ELSE Effect(Returned(Null),
                                   SetAt(o, loc.val.at, field.v,
                                         JList([i \in 1..Len(items) |->
                                                  JDict(ZipDict(keys, items[i].v))])))

(***************************************************************************)
(* Inputs of the cleaners.                                                 *)
(***************************************************************************)
Elts ==
    { Null, JInt(5), JStr("x"), JList(<<>>), JList(<<JInt(1), JInt(2)>>),
      JList(<<JInt(3), JInt(4), JInt(5)>>) }

Arrays == { JList(q) : q \in UNION { [1..n -> Elts] : n \in 0..MaxArrayLen } }

CleanLeaf ==
    { Null, JStr(""), JStr("xy"), JInt(0), JInt(5), JBool(TRUE),
      JDict(EmptyMap), JDict([k \in {"k"} |-> JInt(1)]) }
    \cup Arrays

CleanRecords ==
    LET A == UNION { [S -> CleanLeaf \cup DictsOver({"b"}, CleanLeaf)] :
                       S \in SUBSET {"a"} } IN
    { JDict(f) : f \in A } \cup { JDict(Put(f, "b", JStr("x"))) : f \in A }

CleanPaths ==
    { PathStr("a"), PathStr("b"), PathList(<<"a">>), PathList(<<"a", "b">>),
      PathList(<<"b", "a">>), PathList(<<"a", "b", "a">>) }

KeyLists == { <<>>, <<"lat">>, <<"lat", "lon">> }

CleanCall(fn, path, keys) ==
    [fn |-> fn, path |-> path, value |-> Null, desired |-> TRUE, keys |-> keys]

InitClean ==
    /\ WorkerIdle
    /\ OrchIdle
    /\ obj \in CleanRecords
    /\ obj0 = obj
    /\ call \in { CleanCall("remove_nulls_from_list_field", p, <<>>) : p \in CleanPaths }
                \cup { CleanCall("nested_array_to_dict", p, ks) :
                         p \in CleanPaths, ks \in KeyLists }
    /\ ret = NoRet

CallRemoveNulls ==
    /\ call.fn = "remove_nulls_from_list_field"
    /\ ret.kind = "none"
    /\ LET e == remove_nulls_from_list_field(obj, call.path) IN
       /\ ret' = e.out
       /\ obj' = e.obj
    /\ UNCHANGED <<obj0, call, wvars, ovars>>

CallNestedArrayToDict ==
    /\ call.fn = "nested_array_to_dict"
    /\ ret.kind = "none"
    /\ LET e == nested_array_to_dict(obj, call.path, call.keys) IN
       /\ ret' = e.out
       /\ obj' = e.obj
    /\ UNCHANGED <<obj0, call, wvars, ovars>>

NextClean == CallRemoveNulls \/ CallNestedArrayToDict

SpecClean == InitClean /\ [][NextClean]_vars

(***************************************************************************)
(* Properties of the cleaners.                                             *)
(***************************************************************************)
CleanDone ==
    /\ call.fn \in {"remove_nulls_from_list_field", "nested_array_to_dict"}
    /\ ret.kind # "none"

\* following the keys q from o through mappings, some key is missing: at
\* the top level, at an intermediate, or at the leaf under its container
RECURSIVE LacksPath(_, _)
LacksPath(o, q) ==
    /\ q # <<>>
    /\ o.t = "dict"
    /\ \/ Head(q) \notin DOMAIN o.v
       \/ /\ Head(q) \in DOMAIN o.v
          /\ LacksPath(o.v[Head(q)], Tail(q))

\* C6: a cleaner invoked on a record that lacks its target path (missing
\* top-level key, missing intermediate, or missing leaf key under an
\* existing container) leaves the record exactly unchanged and raises no
\* error.
C6_AbsentPathIsNoOp ==
    (CleanDone /\ LacksPath(obj0, Segs(call.path))) =>
        /\ ret.kind = "return"
        /\ obj = obj0

NestedDone == call.fn = "nested_array_to_dict" /\ ret.kind # "none"

AllLists(q) == \A i \in 1..Len(q) : q[i].t = "list"

RemoveDone == call.fn = "remove_nulls_from_list_field" /\ ret.kind # "none"

\* C8: remove_nulls_from_list_field replaces a sequence-valued target field
\* by the same members in the same order minus the nulls; when the target
\* field is present but holds a non-sequence value (null, string, number,
\* mapping) the record is left unchanged and no error is raised.
C8_RemoveNulls ==
    (RemoveDone /\ Resolves(obj0, call.path)) =>
        LET old == Follow(obj0, Segs(call.path)) IN
        IF old.t = "list"
        THEN /\ ret = Returned(Null)
             /\ Follow(obj, Segs(call.path))
                  = JList(SelectSeq(old.v, LAMBDA x : x # Null))
        ELSE /\ ret.kind = "return"
             /\ obj = obj0

(***************************************************************************)
(* lib.clean_object and lib.transform: the worker of one input file.       *)
(***************************************************************************)
\* getattr(cleaner_functions, cleaner.get('function'))(obj, **params)
ApplyCleaner(o, cleaner) ==
    CASE cleaner.function = "remove_nulls_from_list_field" ->
             remove_nulls_from_list_field(o, cleaner.params.path)
      [] cleaner.function = "nested_array_to_dict" ->
             nested_array_to_dict(o, cleaner.params.path, cleaner.params.keys)
      [] OTHER -> Effect(Raised("AttributeError"), o)

\* clean_object going through the list from its end
RECURSIVE clean_object_reversed(_, _)
clean_object_reversed(o, cleaners) ==
    IF cleaners = <<>> THEN Effect(Returned(Null), o)
    ELSE LET e == ApplyCleaner(o, Last(cleaners)) IN
         IF e.out.kind = "raise" THEN e
         ELSE clean_object_reversed(e.obj, Front(cleaners))

\* the cleaners in list order, each on the record as the earlier ones left
\* it, up to the first one that raises
RECURSIVE clean_object(_, _)
clean_object(o, cleaners) ==
    IF cleaners = <<>> THEN Effect(Returned(Null), o)
    ELSE LET e == ApplyCleaner(o, Head(cleaners)) IN
         IF e.out.kind = "raise" THEN e
         ELSE clean_object(e.obj, Tail(cleaners))

\* filter.get('desired_test_result', True)
DesiredOf(filter) ==
    IF "desired_test_result" \in DOMAIN filter THEN filter.desired_test_result
    ELSE TRUE

\* [filter_single_record(...) for filter in filters]: the list of results,
\* or the first raise
RECURSIVE FilterResults(_, _)
FilterResults(o, filters) ==
    IF filters = <<>> THEN Returned(<<>>)
    ELSE LET f == Head(filters)
             r == filter_single_record(o, f.path, f.value, DesiredOf(f))
         IN  IF r.kind = "raise" THEN r
             ELSE LET rest == FilterResults(o, Tail(filters)) IN
                  IF rest.kind = "raise" THEN rest
                  ELSE Returned(<<r.val>> \o rest.val)

\* `False in results` turned into `True not in results`
FalseIn_all(results) == \A i \in 1..Len(results) : PyEq(JBool(FALSE), results[i])

\* False in results
FalseIn(results) == \E i \in 1..Len(results) : PyEq(JBool(FALSE), results[i])

\* config.get(key): the list, or None, which is as falsy as the empty list
ConfigGet(config, key) == IF key \in DOMAIN config THEN config[key] ELSE <<>>

filters == ConfigGet(call.config, "filter_records")

cleaners == ConfigGet(call.config, "cleaners")

\* lines 158-174: locals set up, output_path opened with mode 'w'
TransformStart ==
    /\ pc = "start"
    /\ UNCHANGED ovars
    /\ schema_map' = <<>>
    /\ error_logs' = <<>>
    /\ empty_file' = TRUE
    /\ lines' = 0
    /\ out_exists' = TRUE
    /\ out_content' = <<>>
    /\ pc' = "read"
    /\ UNCHANGED <<obj, obj0, call, ret, idx>>

\* line 175: the next record of the input file, or the end of the loop
TransformRead ==
    /\ pc = "read"
    /\ UNCHANGED ovars
    /\ IF idx < Len(call.input)
       THEN /\ obj' = call.input[idx + 1]
            /\ obj0' = call.input[idx + 1]
            /\ idx' = idx + 1
            /\ pc' = "filter"
       ELSE /\ pc' = "end"
            /\ UNCHANGED <<obj, obj0, idx>>
    /\ UNCHANGED <<call, ret, out_exists, out_content, empty_file, lines,
                   schema_map, error_logs>>

\* lines 176-186: every filter is evaluated; a raise leaves transform
\* through the with blocks, which close the output file
TransformFilter ==
    /\ pc = "filter"
    /\ UNCHANGED ovars
    /\ IF filters = <<>>
       THEN pc' = "clean" /\ ret' = ret
       ELSE LET results == FilterResults(obj, filters) IN
            IF results.kind = "raise" THEN pc' = "raised" /\ ret' = results
            ELSE IF FalseIn(results.val) THEN pc' = "read" /\ ret' = ret
            ELSE pc' = "clean" /\ ret' = ret
    /\ UNCHANGED <<obj, obj0, call, idx, out_exists, out_content, empty_file,
                   lines, schema_map, error_logs>>

\* lines 188-190
TransformClean ==
    /\ pc = "clean"
    /\ UNCHANGED ovars
    /\ empty_file' = FALSE
    /\ IF cleaners = <<>>
       THEN pc' = "write" /\ obj' = obj /\ ret' = ret
       ELSE LET e == clean_object(obj, cleaners) IN
            /\ obj' = e.obj
            /\ IF e.out.kind = "raise" THEN pc' = "raised" /\ ret' = e.out
               ELSE pc' = "write" /\ ret' = ret
    /\ UNCHANGED <<obj0, call, idx, out_exists, out_content, lines,
                   schema_map, error_logs>>

\* lines 191-192
TransformWrite ==
    /\ pc = "write"
    /\ UNCHANGED ovars
    /\ out_content' = Append(out_content, obj)
    /\ lines' = lines + 1
    /\ pc' = "deduce"
    /\ UNCHANGED <<obj, obj0, call, ret, idx, out_exists, empty_file,
                   schema_map, error_logs>>

\* lines 196-197: the schema generator folds the record in; whether it also
\* appends to its error_logs is its own decision
TransformDeduce ==
    /\ pc = "deduce"
    /\ UNCHANGED ovars
    /\ schema_map' = Append(schema_map, obj)
    /\ \E logged \in BOOLEAN :
          error_logs' = IF logged THEN Append(error_logs, idx) ELSE error_logs
    /\ pc' = "read"
    /\ UNCHANGED <<obj, obj0, call, ret, idx, out_exists, out_content,
                   empty_file, lines>>

\* lines 196-197 without the try: the schema generator's exception leaves
\* transform
TransformDeduceRaises_propagates ==
    /\ pc = "deduce"
    /\ UNCHANGED ovars
    /\ pc' = "raised"
    /\ ret' = Raised("Exception")
    /\ UNCHANGED <<obj, obj0, call, idx, out_exists, out_content,
                   empty_file, lines, schema_map, error_logs>>

\* lines 198-199: the schema generator raises and the exception is dropped;
\* the record's contribution to schema_map is skipped
TransformDeduceRaises ==
    /\ pc = "deduce"
    /\ UNCHANGED ovars
    /\ pc' = "read"
    /\ UNCHANGED <<obj, obj0, call, ret, idx, out_exists, out_content,
                   empty_file, lines, schema_map, error_logs>>

\* transform's end without os.remove(output_path)
TransformEnd_keeps_file ==
    /\ pc = "end"
    /\ UNCHANGED ovars
    /\ ret' = Returned([empty_file |-> empty_file, schema_map |-> schema_map,
                        error_logs |-> error_logs, lines |-> lines])
    /\ pc' = "done"
    /\ UNCHANGED <<obj, obj0, call, idx, out_exists, out_content, empty_file,
                   lines, schema_map, error_logs>>

\* lines 201-205
TransformEnd ==
    /\ pc = "end"
    /\ UNCHANGED ovars
    /\ IF empty_file
       THEN out_exists' = FALSE /\ out_content' = <<>>
       ELSE UNCHANGED <<out_exists, out_content>>
    /\ ret' = Returned([empty_file |-> empty_file, schema_map |-> schema_map,
                        error_logs |-> error_logs, lines |-> lines])
    /\ pc' = "done"
    /\ UNCHANGED <<obj, obj0, call, idx, empty_file, lines, schema_map, error_logs>>

(***************************************************************************)
(* Inputs of the worker.                                                   *)
(***************************************************************************)
WRecords ==
    LET base(ty) == [k \in {"type", "v"} |->
                       IF k = "type" THEN JStr(ty) ELSE JList(<<Null, JInt(5)>>)]
    IN  { JDict(base(ty)) : ty \in {"A", "B"} }
        \cup { JDict(Put(base(ty), "g", JList(<<JList(<<JInt(1), JInt(2)>>)>>))) :
                 ty \in {"A", "B"} }
        \cup { JDict(Put(base("A"), "g", JList(<<Null, JList(<<JInt(1), JInt(2)>>)>>))) }

InputFiles == UNION { [1..n -> WRecords] : n \in 0..MaxRecords }

FilterSpecs ==
    { [path |-> PathStr("type"), value |-> JStr("A")],
      [path |-> PathList(<<"type">>), value |-> JList(<<JStr("B"), JStr("C")>>),
       desired_test_result |-> FALSE],
      [path |-> PathStr("g"), value |-> JStr("A"), desired_test_result |-> FALSE] }

FilterLists ==
    {<<>>} \cup { <<f>> : f \in FilterSpecs } \cup { <<f, g>> : f, g \in FilterSpecs }

RemoveNullsV ==
    [function |-> "remove_nulls_from_list_field", params |-> [path |-> PathStr("v")]]

NestedG ==
    [function |-> "nested_array_to_dict",
     params |-> [path |-> PathStr("g"), keys |-> <<"lat", "lon">>]]

RemoveNullsG ==
    [function |-> "remove_nulls_from_list_field", params |-> [path |-> PathStr("g")]]

\* the last two lists act on one field: their order shows
CleanerLists ==
    { <<>>, <<RemoveNullsV>>, <<RemoveNullsV, NestedG>>,
      <<RemoveNullsG, NestedG>>, <<NestedG, RemoveNullsG>> }

\* the YAML configuration: both top-level keys are optional
Configs ==
    { [filter_records |-> fs, cleaners |-> cs] : fs \in FilterLists, cs \in CleanerLists }
    \cup { [filter_records |-> fs] : fs \in FilterLists }
    \cup { [cleaners |-> cs] : cs \in CleanerLists }

\* what an earlier run left at output_path
StaleRecord == JDict([k \in {"old"} |-> JInt(1)])

Init ==
    /\ OrchIdle
    /\ call \in { [fn |-> "transform", input |-> i, config |-> c] :
                    i \in InputFiles, c \in Configs }
    /\ obj = Null
    /\ obj0 = Null
    /\ ret = NoRet
    /\ pc = "start"
    /\ idx = 0
    /\ out_exists \in BOOLEAN
    /\ out_content = IF out_exists THEN <<StaleRecord>> ELSE <<>>
    /\ empty_file = TRUE
    /\ lines = 0
    /\ schema_map = <<>>
    /\ error_logs = <<>>

Next ==
    \/ TransformStart
    \/ TransformRead
    \/ TransformFilter
    \/ TransformClean
    \/ TransformWrite
    \/ TransformDeduce
    \/ TransformDeduceRaises
    \/ TransformEnd

Spec == Init /\ [][Next]_vars

(***************************************************************************)
(* Properties of the worker.                                               *)
(***************************************************************************)
\* the value a filter spec compares: the value at the path, null when the
\* path does not resolve
ResolvedOrNull(o, path) == IF Resolves(o, path) THEN Follow(o, Segs(path)) ELSE Null

\* the record passes one filter spec
PassesSpec(o, f) ==
    RawTestNumeric(ResolvedOrNull(o, f.path), f.value) = DesiredOf(f)

PassesAll(o, fs) == \A i \in 1..Len(fs) : PassesSpec(o, fs[i])

\* C2: the worker keeps a record (goes on to clean and write it) if and
\* only if the record passes every spec of the filter list, and discards it
\* (goes on to the next record) as soon as one spec fails, whatever the
\* other specs are and wherever they stand in the list.
C2_Conjunction ==
    [][ pc = "filter" =>
          /\ (pc' = "clean") <=> PassesAll(obj, filters)
          /\ (pc' = "read") <=> ~PassesAll(obj, filters) ]_vars

\* C9: when transform returns, the returned empty flag is true iff the
\* returned line count is 0, and then no file is left at output_path;
\* otherwise the output file exists and holds as many records as the
\* returned line count.
C9_EmptyOutputRemoved ==
    pc = "done" =>
        /\ ret.kind = "return"
        /\ ret.val.empty_file <=> (ret.val.lines = 0)
        /\ ret.val.empty_file => ~out_exists
        /\ ~ret.val.empty_file =>
              (out_exists /\ Len(out_content) = ret.val.lines)

\* C9 witness: transform has returned from a file of two records that were
\* both filtered out: the flag is set and nothing is left at output_path.
C9_Witness ==
    /\ pc = "done"
    /\ Len(call.input) = 2
    /\ ret.kind = "return"
    /\ ret.val.empty_file
    /\ ret.val.lines = 0
    /\ ~out_exists

\* the step of the worker in which inference on the written record raised:
\* the worker leaves `deduce` without the record being folded in
InferenceRaised == pc = "deduce" /\ schema_map' = schema_map

\* C13 (as stated): when inference raises on one record the exception is
\* caught and logged to the file's inference error log, is not propagated
\* out of transform, and the worker goes on with the next record.
C13_CaughtAndLogged ==
    [][ InferenceRaised =>
          /\ error_logs' # error_logs
          /\ ret' = ret
          /\ pc' = "read" ]_vars

\* C13 (amended): when inference raises on one record the exception is
\* caught and dropped without anything being logged; it is not propagated
\* out of transform, the record stays written and counted, and the worker
\* goes on to read the next record, so that a transform that returns has
\* read every record of the file.
C13_CaughtAndDropped ==
    /\ [][ InferenceRaised =>
             /\ pc' = "read"
             /\ ret' = ret
             /\ error_logs' = error_logs
             /\ out_content' = out_content
             /\ lines' = lines
             /\ empty_file' = empty_file
             /\ idx' = idx ]_vars
    /\ [](pc = "done" => (ret.kind = "return" /\ idx = Len(call.input)))

\* C13 witness: transform has returned from a file of two different records,
\* both written; inference raised on the first, nothing was logged, and the
\* second was still folded into the partial schema map.
C13_Witness ==
    /\ pc = "done"
    /\ lines = 2
    /\ Len(out_content) = 2
    /\ out_content[1] # out_content[2]
    /\ schema_map = <<out_content[2]>>
    /\ error_logs = <<>>

\* C14: a record that fails at least one filter spec is discarded with no
\* effect: the worker does not go on to clean or write it, the record is left
\* as read, and the output, the written-line count, the empty flag, the
\* partial schema map and the error log are unchanged by it.
C14_DiscardHasNoEffect ==
    [][ (pc = "filter" /\ ~PassesAll(obj, filters)) =>
          /\ pc' \in {"read", "raised"}
          /\ obj' = obj
          /\ out_content' = out_content
          /\ lines' = lines
          /\ empty_file' = empty_file
          /\ schema_map' = schema_map
          /\ error_logs' = error_logs ]_vars

\* C14 witness: the first record passed the first of two filter specs and
\* failed the second; with cleaners configured, the worker is back at reading
\* with the record untouched, nothing written and the empty flag still set.
C14_Witness ==
    /\ pc = "read"
    /\ idx = 1
    /\ Len(filters) = 2
    /\ PassesSpec(obj, filters[1])
    /\ ~PassesSpec(obj, filters[2])
    /\ cleaners # <<>>
    /\ obj = obj0
    /\ out_content = <<>>
    /\ lines = 0
    /\ empty_file
    /\ schema_map = <<>>

\* the records of the input that pass every filter spec, in input order,
\* each as the cleaners leave it
RECURSIVE KeptAndCleaned(_, _, _)
KeptAndCleaned(input, fs, cs) ==
    IF input = <<>> THEN <<>>
    ELSE LET rest == KeptAndCleaned(Tail(input), fs, cs) IN
         IF PassesAll(Head(input), fs)
         THEN <<clean_object(Head(input), cs).obj>> \o rest
         ELSE rest

\* C17: once the worker is through with a file, the records written to the
\* output are exactly the input records that pass all filters, in input
\* order, each with the configured cleaners applied.
C17_OutputIsKeptSubsequence ==
    pc \in {"done", "raised"} =>
        out_content = KeptAndCleaned(call.input, filters, cleaners)

(***************************************************************************)
(* lib.merge_schema_maps, lib.get_chunks and the orchestrator              *)
(* lib.generate_schema_for_dataset.                                        *)
(*                                                                         *)
(* A schema map is an OrderedDict from top-level field name to schema      *)
(* entry: here a sequence of [key, entry] in insertion order.  Entries are *)
(* built by the schema generator; the model knows of an entry only the     *)
(* files whose entries went into it, in merge order.                       *)
(***************************************************************************)
MaxFiles == 3

\* the chunk size, which line 241 sets to 500
ChunkSize == 2

\* max_workers, os.cpu_count() by default
MaxWorkers == 2

KeysOf(m) == { m[j].key : j \in 1..Len(m) }

\* m[k]
EntryOf(m, k) == m[CHOOSE j \in 1..Len(m) : m[j].key = k].entry

\* m[k] = e: an existing key keeps its place, a new one goes last
SetEntry(m, k, e) ==
    IF k \in KeysOf(m)
    THEN [j \in 1..Len(m) |-> IF m[j].key = k THEN [key |-> k, entry |-> e] ELSE m[j]]
    ELSE Append(m, [key |-> k, entry |-> e])

\* schema_generator.merge_schema_entry when it returns: an entry made of both
merge_schema_entry(old_schema_entry, new_schema_entry) ==
    old_schema_entry \o new_schema_entry

\* the loop of merge_schema_maps without its else branch
RECURSIVE merge_loop_common_only(_, _, _, _)
merge_loop_common_only(to_add, old, j, raise_at) ==
    IF j > Len(to_add) THEN [out |-> Returned(old), old |-> old]
    ELSE LET key == to_add[j].key
             value == to_add[j].entry
         IN  IF key \in KeysOf(old)
             THEN IF j = raise_at THEN [out |-> Raised("Exception"), old |-> old]
                  ELSE merge_loop_common_only(to_add,
                           SetEntry(old, key, merge_schema_entry(EntryOf(old, key), value)),
                           j + 1, raise_at)
             ELSE merge_loop_common_only(to_add, old, j + 1, raise_at)

\* lines 73-79: the loop over to_add.items() from its j-th item on; `old` is
\* the caller's object, assigned to item by item.  merge_schema_entry raises
\* at item raise_at (0: nowhere).  The result is the outcome together with
\* `old` as the loop left it.
RECURSIVE merge_loop(_, _, _, _)
merge_loop(to_add, old, j, raise_at) ==
    IF j > Len(to_add) THEN [out |-> Returned(old), old |-> old]
    ELSE LET key == to_add[j].key
             value == to_add[j].entry
         IN  IF key \in KeysOf(old)
             THEN IF j = raise_at THEN [out |-> Raised("Exception"), old |-> old]
                  ELSE merge_loop(to_add,
                           SetEntry(old, key, merge_schema_entry(EntryOf(old, key), value)),
                           j + 1, raise_at)
             ELSE merge_loop(to_add, SetEntry(old, key, value), j + 1, raise_at)

\* merge_schema_maps(to_add, old): an empty `old` is left alone and a copy of
\* to_add is returned
merge_schema_maps(to_add, old, raise_at) ==
    IF old # <<>> THEN merge_loop(to_add, old, 1, raise_at)
    ELSE [out |-> Returned(to_add), old |-> old]

\* get_chunks that stops before a last, shorter chunk
get_chunks_full_only(input_list, chunk_size) ==
    [k \in 1..(Len(input_list) \div chunk_size) |->
        SubSeq(input_list, (k - 1) * chunk_size + 1, k * chunk_size)]

\* list(get_chunks(input_list=input_list, chunk_size=chunk_size))
get_chunks(input_list, chunk_size) ==
    LET n == Len(input_list) IN
    [k \in 1..((n + chunk_size - 1) \div chunk_size) |->
        SubSeq(input_list, (k - 1) * chunk_size + 1, Min(k * chunk_size, n))]

\* the discovered files, by their place in the list; call.paths holds their
\* paths
files == call.files

total_files == Len(files)

chunks == get_chunks(files, ChunkSize)

chunk == chunks[chunk_no]

(***************************************************************************)
(* What a worker hands back for file f: transform raising, or its return   *)
(* value, where empty_file holds exactly when no line was written.         *)
(***************************************************************************)
PartialMap(f, ks) == [j \in 1..Len(ks) |-> [key |-> ks[j], entry |-> <<f>>]]

NonEmptySamples ==
    { [lines |-> 1, ks |-> <<"x">>, errs |-> <<>>],
      [lines |-> 2, ks |-> <<"y", "x">>, errs |-> <<>>],
      [lines |-> 2, ks |-> <<"x", "y">>, errs |-> <<"e">>],
      [lines |-> 1, ks |-> <<>>, errs |-> <<"e">>] }

WorkerResults(f) ==
    { Raised("Exception"),
      Returned([empty_file |-> TRUE, schema_map |-> <<>>, error_logs |-> <<>>,
                lines |-> 0]) }
    \cup { Returned([empty_file |-> FALSE, schema_map |-> PartialMap(f, s.ks),
                     error_logs |-> s.errs, lines |-> s.lines]) :
             s \in NonEmptySamples }

NewFuture == [st |-> "new", res |-> NoRet, output_path |-> <<>>]

(***************************************************************************)
(* Paths, as the sequences of their characters.                            *)
(***************************************************************************)
Jsonl == <<".", "j", "s", "o", "n", "l">>

Gz == <<".", "g", "z">>

\* the default of line 226, '.jsonl.gz'
file_suffix == Jsonl \o Gz

input_folder == <<"i", "n">>

output_folder == <<"o", "u", "t">>

StartsWith(s, prefix) ==
    Len(prefix) <= Len(s) /\ SubSeq(s, 1, Len(prefix)) = prefix

\* s.replace(old, new): every occurrence, found from the left
RECURSIVE str_replace(_, _, _)
str_replace(s, old, new) ==
    IF Len(s) < Len(old) THEN s
    ELSE IF StartsWith(s, old)
         THEN new \o str_replace(SubSeq(s, Len(old) + 1, Len(s)), old, new)
         ELSE <<Head(s)>> \o str_replace(Tail(s), old, new)

\* folder / name
JoinPath(folder, name) == folder \o <<"/">> \o name

\* Path(path).relative_to(folder), for a path under the folder
relative_to(path, folder) == SubSeq(path, Len(folder) + 2, Len(path))

\* lines 246-248
output_path_of(input_path) ==
    str_replace(JoinPath(output_folder, relative_to(input_path, input_folder)),
                file_suffix, Jsonl)

\* files list_import_files can find under input_folder: all end with the
\* suffix
DiscoveredPaths ==
    << JoinPath(input_folder, <<"a">> \o file_suffix \o file_suffix),
       JoinPath(input_folder, <<"a">> \o Jsonl \o file_suffix),
       JoinPath(input_folder, <<"a">> \o file_suffix),
       JoinPath(input_folder, <<"b">> \o file_suffix) >>

\* the lists of n different discovered files
PathLists(n) ==
    { [j \in 1..n |-> DiscoveredPaths[pick[j]]] :
        pick \in { q \in [1..n -> 1..Len(DiscoveredPaths)] :
                     \A j \in 1..(n - 1) : q[j] < q[j + 1] } }

Running == { f \in DOMAIN fut : fut[f].st = "running" }

InSeq(x, s) == \E j \in 1..Len(s) : s[j] = x

(***************************************************************************)
(* generate_schema_for_dataset, from line 241 on, and the pool's workers.  *)
(***************************************************************************)
hvars == <<obj, obj0, call, wvars>>

\* lines 241-243: the next chunk of the file list and a new pool for it
NextChunk ==
    /\ opc = "chunks"
    /\ chunk_no < Len(chunks)
    /\ chunk_no' = chunk_no + 1
    /\ pool' = TRUE
    /\ futures' = <<>>
    /\ opc' = "submit"
    /\ UNCHANGED <<hvars, ret, fut, cur, merged_schema_map, file_no, sum_lines,
                   progress, errors_txt, merge_errors, submitted, drained,
                   schema_json>>

\* lines 245-249: the files of the chunk are submitted one by one
Submit ==
    /\ opc = "submit"
    /\ IF Len(futures) < Len(chunk)
       THEN LET input_path == chunk[Len(futures) + 1] IN
            /\ futures' = Append(futures, input_path)
            /\ submitted' = Append(submitted, input_path)
            /\ fut' = [fut EXCEPT ![input_path].st = "queued",
                                  ![input_path].output_path =
                                      output_path_of(call.paths[input_path])]
            /\ opc' = opc
       ELSE /\ opc' = "drain"
            /\ UNCHANGED <<futures, submitted, fut>>
    /\ UNCHANGED <<hvars, ret, chunk_no, pool, cur, merged_schema_map, file_no,
                   sum_lines, progress, errors_txt, merge_errors, drained,
                   schema_json>>

\* a process of the pool takes a submitted file
WorkerRun(f) ==
    /\ pool
    /\ fut[f].st = "queued"
    /\ Cardinality(Running) < MaxWorkers
    /\ fut' = [fut EXCEPT ![f].st = "running"]
    /\ UNCHANGED <<hvars, ret, opc, chunk_no, pool, futures, cur,
                   merged_schema_map, file_no, sum_lines, progress, errors_txt,
                   merge_errors, submitted, drained, schema_json>>

\* a worker that folds its schema map into the orchestrator's by itself
WorkerFinish_shared(f) ==
    /\ fut[f].st = "running"
    /\ \E r \in WorkerResults(f) :
          /\ fut' = [fut EXCEPT ![f].st = "done", ![f].res = r]
          /\ merged_schema_map' =
                IF r.kind = "return"
                THEN merge_schema_maps(r.val.schema_map, merged_schema_map, 0).out.val
                ELSE merged_schema_map
    /\ UNCHANGED <<hvars, ret, opc, chunk_no, pool, futures, cur, file_no,
                   sum_lines, progress, errors_txt, merge_errors, submitted,
                   drained, schema_json>>

\* transform(input_path, ...) ends in its process: the future resolves with
\* the returned tuple or with the exception
WorkerFinish(f) ==
    /\ fut[f].st = "running"
    /\ \E r \in WorkerResults(f) :
          fut' = [fut EXCEPT ![f].st = "done", ![f].res = r]
    /\ UNCHANGED <<hvars, ret, opc, chunk_no, pool, futures, cur,
                   merged_schema_map, file_no, sum_lines, progress, errors_txt,
                   merge_errors, submitted, drained, schema_json>>

\* future.result() raising taken for the result of an empty file
DrainResult_failure_as_empty(f) ==
    /\ opc = "drain"
    /\ InSeq(f, futures)
    /\ ~InSeq(f, drained)
    /\ fut[f].st = "done"
    /\ drained' = Append(drained, f)
    /\ cur' = f
    /\ IF fut[f].res.kind = "raise" \/ fut[f].res.val.empty_file
       THEN /\ opc' = "progress"
            /\ UNCHANGED <<sum_lines, errors_txt>>
       ELSE LET r == fut[f].res.val IN
            /\ sum_lines' = sum_lines + r.lines
            /\ errors_txt' = IF r.error_logs # <<>>
                             THEN Append(errors_txt, f) ELSE errors_txt
            /\ opc' = "merge"
    /\ UNCHANGED <<hvars, ret, chunk_no, pool, futures, fut, merged_schema_map,
                   file_no, progress, merge_errors, submitted, schema_json>>

\* lines 252-260: as_completed yields a resolved future not yielded before;
\* future.result() returns the worker's tuple or raises its exception
DrainResult(f) ==
    /\ opc = "drain"
    /\ InSeq(f, futures)
    /\ ~InSeq(f, drained)
    /\ fut[f].st = "done"
    /\ drained' = Append(drained, f)
    /\ cur' = f
    /\ IF fut[f].res.kind = "raise"
       THEN /\ opc' = "failing"
            /\ UNCHANGED <<sum_lines, errors_txt>>
       ELSE LET r == fut[f].res.val IN
            IF ~r.empty_file
            THEN /\ sum_lines' = sum_lines + r.lines
                 /\ errors_txt' = IF r.error_logs # <<>>
                                  THEN Append(errors_txt, f) ELSE errors_txt
                 /\ opc' = "merge"
            ELSE /\ opc' = "progress"
                 /\ UNCHANGED <<sum_lines, errors_txt>>
    /\ UNCHANGED <<hvars, ret, chunk_no, pool, futures, fut, merged_schema_map,
                   file_no, progress, merge_errors, submitted, schema_json>>

\* lines 262-266: merge_schema_maps on the file's schema map and the
\* orchestrator's; when it raises, the assignment does not happen, the
\* orchestrator's map stays the object the loop had been assigning to, and
\* the error is printed
MergeResult ==
    /\ opc = "merge"
    /\ LET schema_map_in == fut[cur].res.val.schema_map IN
       \E raise_at \in 0..Len(schema_map_in) :
          LET m == merge_schema_maps(schema_map_in, merged_schema_map, raise_at) IN
          IF m.out.kind = "raise"
          THEN /\ merged_schema_map' = m.old
               /\ merge_errors' = merge_errors \cup {cur}
          ELSE /\ merged_schema_map' = m.out.val
               /\ merge_errors' = merge_errors
    /\ opc' = "progress"
    /\ UNCHANGED <<hvars, ret, chunk_no, pool, futures, fut, cur, file_no,
                   sum_lines, progress, errors_txt, submitted, drained,
                   schema_json>>

\* lines 268-270: the progress line is printed with i, then i += 1
ReportProgress ==
    /\ opc = "progress"
    /\ progress' = file_no
    /\ file_no' = file_no + 1
    /\ opc' = "drain"
    /\ UNCHANGED <<hvars, ret, chunk_no, pool, futures, fut, cur,
                   merged_schema_map, sum_lines, errors_txt, merge_errors,
                   submitted, drained, schema_json>>

\* the pool is left as soon as one future was handled
PoolExit_early ==
    /\ opc = "drain"
    /\ \E j \in 1..Len(futures) : InSeq(futures[j], drained)
    /\ pool' = FALSE
    /\ opc' = "chunks"
    /\ UNCHANGED <<hvars, ret, chunk_no, futures, fut, cur, merged_schema_map,
                   file_no, sum_lines, progress, errors_txt, merge_errors,
                   submitted, drained, schema_json>>

\* lines 252 and 242: as_completed has yielded every future of the chunk;
\* the with block shuts the pool down
PoolExit ==
    /\ opc = "drain"
    /\ \A j \in 1..Len(futures) : InSeq(futures[j], drained)
    /\ pool' = FALSE
    /\ opc' = "chunks"
    /\ UNCHANGED <<hvars, ret, chunk_no, futures, fut, cur, merged_schema_map,
                   file_no, sum_lines, progress, errors_txt, merge_errors,
                   submitted, drained, schema_json>>

\* lines 253 and 242: the worker's exception leaves the loops; the with
\* block waits for the submitted workers, shuts the pool down, and the
\* exception leaves generate_schema_for_dataset
PoolExitRaising ==
    /\ opc = "failing"
    /\ \A j \in 1..Len(futures) : fut[futures[j]].st = "done"
    /\ pool' = FALSE
    /\ opc' = "failed"
    /\ ret' = fut[cur].res
    /\ UNCHANGED <<hvars, chunk_no, futures, fut, cur, merged_schema_map,
                   file_no, sum_lines, progress, errors_txt, merge_errors,
                   submitted, drained, schema_json>>

\* the schema written without waiting for the last chunk
WriteSchema_early ==
    /\ opc = "chunks"
    /\ schema_json' = [written |-> TRUE, schema_map |-> merged_schema_map]
    /\ opc' = "done"
    /\ ret' = Returned(Null)
    /\ UNCHANGED <<hvars, chunk_no, pool, futures, fut, cur, merged_schema_map,
                   file_no, sum_lines, progress, errors_txt, merge_errors,
                   submitted, drained>>

\* lines 272-280: after the last chunk the merged map is flattened, written
\* to schema.json and sorted there
WriteSchema ==
    /\ opc = "chunks"
    /\ chunk_no = Len(chunks)
    /\ schema_json' = [written |-> TRUE, schema_map |-> merged_schema_map]
    /\ opc' = "done"
    /\ ret' = Returned(Null)
    /\ UNCHANGED <<hvars, chunk_no, pool, futures, fut, cur, merged_schema_map,
                   file_no, sum_lines, progress, errors_txt, merge_errors,
                   submitted, drained>>

\* lines 228-239: the locals before the loop over the chunks
InitOrch ==
    /\ WorkerIdle
    /\ obj = Null
    /\ obj0 = Null
    /\ call \in UNION { { [fn |-> "generate_schema_for_dataset",
                             files |-> [j \in 1..n |-> j], paths |-> ps] :
                              ps \in PathLists(n) } : n \in 0..MaxFiles }
    /\ ret = NoRet
    /\ opc = "chunks"
    /\ chunk_no = 0
    /\ pool = FALSE
    /\ futures = <<>>
    /\ fut = [f \in 1..Len(call.files) |-> NewFuture]
    /\ cur = 0
    /\ merged_schema_map = <<>>
    /\ file_no = 1
    /\ sum_lines = 0
    /\ progress = 0
    /\ errors_txt = <<>>
    /\ merge_errors = {}
    /\ submitted = <<>>
    /\ drained = <<>>
    /\ schema_json = [written |-> FALSE, schema_map |-> <<>>]

NextOrch ==
    \/ NextChunk
    \/ Submit
    \/ \E f \in DOMAIN fut : WorkerRun(f)
    \/ \E f \in DOMAIN fut : WorkerFinish(f)
    \/ \E f \in DOMAIN fut : DrainResult(f)
    \/ MergeResult
    \/ ReportProgress
    \/ PoolExit
    \/ PoolExitRaising
    \/ WriteSchema

SpecOrch == InitOrch /\ [][NextOrch]_vars

\* the orchestrator and the processes of its pool keep running: a step is
\* taken whenever one can be
SpecOrchFair == SpecOrch /\ WF_vars(NextOrch)

(***************************************************************************)
(* Properties of the orchestrator.                                         *)
(***************************************************************************)
\* the step in which merge_schema_maps raised and the error was printed
MergeRaised == opc = "merge" /\ merge_errors' # merge_errors

\* C11: if merging one file's partial schema map into the global schema map
\* raises, the orchestrator catches the error, the global schema map is
\* afterwards exactly what it was before that merge step began, and the
\* orchestrator goes on with the remaining results.
C11_FailedMergeLeavesMapUnchanged ==
    [][ MergeRaised =>
          /\ merged_schema_map' = merged_schema_map
          /\ opc' = "progress" ]_vars

\* the files whose "Progress:" line was printed
Reported == { drained[j] : j \in 1..progress }

\* the files that went into some entry of the global schema map
Contributors ==
    UNION { { merged_schema_map[j].entry[n] : n \in 1..Len(merged_schema_map[j].entry) } :
              j \in 1..Len(merged_schema_map) }

\* C12: when a worker raises, the failure reaches the orchestrator and leaves
\* it as a failure: taking the failed result changes neither the line total,
\* the progress count, the error file nor the global schema map; a failed
\* file is never reported as completed and never contributes to the global
\* schema map; the run then ends with the worker's exception and never with
\* schema.json written.
C12_WorkerFailureSurfaces ==
    /\ [][ (opc = "drain" /\ cur' # cur /\ fut[cur'].res.kind = "raise") =>
             /\ opc' = "failing"
             /\ sum_lines' = sum_lines
             /\ file_no' = file_no
             /\ progress' = progress
             /\ errors_txt' = errors_txt
             /\ merged_schema_map' = merged_schema_map ]_vars
    /\ [][ opc = "failing" =>
             /\ opc' \in {"failing", "failed"}
             /\ UNCHANGED <<sum_lines, file_no, progress, errors_txt,
                            merged_schema_map, schema_json>> ]_vars
    /\ [](\A f \in Reported \cup Contributors : fut[f].res.kind = "return")
    /\ [](opc = "failed" =>
             (ret.kind = "raise" /\ ret = fut[cur].res /\ ~schema_json.written))
    /\ [](opc = "done" => \A f \in DOMAIN fut : fut[f].res.kind = "return")

\* C12 witness: the run has ended with the exception of a worker whose
\* result was taken after another file had been merged and reported; the
\* failed file is not among the reported ones.
C12_Witness ==
    /\ opc = "failed"
    /\ ret.kind = "raise"
    /\ fut[cur].res.kind = "raise"
    /\ progress = 1
    /\ Len(drained) = 2
    /\ cur \notin Reported
    /\ merged_schema_map # <<>>

\* the files submitted whose result the orchestrator has not taken yet
InFlight == { f \in DOMAIN fut : fut[f].st # "new" /\ ~InSeq(f, drained) }

\* the files of the chunks before the current one
EarlierFiles ==
    { chunks[k][j] : <<k, j>> \in
        { p \in (1..Len(chunks)) \X (1..ChunkSize) :
            p[1] < chunk_no /\ p[2] <= Len(chunks[p[1]]) } }

\* C15: chunks never overlap: every file of an earlier chunk has resolved
\* and been drained before the pool of the next chunk exists or any of its
\* files is submitted, a pool exists only inside the processing of a chunk,
\* and the files in flight all belong to the current chunk, so they are at
\* most a chunk's size.
C15_ChunksDoNotOverlap ==
    /\ \A f \in EarlierFiles : fut[f].st = "done" /\ InSeq(f, drained)
    /\ \A f \in DOMAIN fut :
          fut[f].st # "new" => (f \in EarlierFiles \/ InSeq(f, futures))
    /\ \A f \in InFlight : chunk_no >= 1 /\ InSeq(f, chunk)
    /\ Cardinality(InFlight) <= ChunkSize
    /\ pool => opc \in {"submit", "drain", "merge", "progress", "failing"}
    /\ opc = "chunks" => InFlight = {}

\* C15 witness: the second chunk's pool is open with one of its files
\* running, after the first chunk's files were drained out of submission
\* order.
C15_Witness ==
    /\ pool
    /\ chunk_no = 2
    /\ \E f \in InFlight : fut[f].st = "running"
    /\ Len(drained) >= 2
    /\ drained[1] = chunks[1][2]
    /\ drained[2] = chunks[1][1]

\* C18: whatever the order in which the workers complete, the global schema
\* map is written only by the orchestrator's merge step, one merge at a time
\* (while the merge of one result is under way no other result is taken);
\* no step of a worker changes the global schema map; a step changes the
\* future of at most one file, and the partial schema map a worker has
\* handed back is never changed afterwards.
C18_SingleWriter ==
    [][ /\ merged_schema_map' # merged_schema_map =>
              (opc = "merge" /\ opc' = "progress" /\ fut' = fut)
        /\ opc = "merge" => (cur' = cur /\ drained' = drained)
        /\ fut' # fut => merged_schema_map' = merged_schema_map
        /\ \A f \in DOMAIN fut :
              /\ fut[f].st = "done" => fut'[f] = fut[f]
              /\ fut'[f] # fut[f] =>
                    \A g \in DOMAIN fut : g # f => fut'[g] = fut[g] ]_vars

\* C18 witness: the orchestrator is merging the non-empty schema map of the
\* file that completed first while another worker of the pool is running.
C18_Witness ==
    /\ opc = "merge"
    /\ fut[cur].res.val.schema_map # <<>>
    /\ \E f \in DOMAIN fut : f # cur /\ fut[f].st = "running"

\* the step in which merge_schema_maps returned
MergeReturned == opc = "merge" /\ opc' = "progress" /\ merge_errors' = merge_errors

\* the non-empty files whose schema map has been merged
MergedFiles ==
    { f \in DOMAIN fut :
        /\ InSeq(f, drained)
        /\ fut[f].res.kind = "return"
        /\ ~fut[f].res.val.empty_file
        /\ ~(opc = "merge" /\ f = cur) }

\* C19: as long as no merge has raised, the top-level field names of the
\* global schema map are the union of those of the partial maps of the
\* non-empty files merged so far; a merge that returns removes no field,
\* inserts a field present only in the incoming map with the incoming entry
\* as it is, and leaves the entry of a field present only in the old map
\* unchanged.
C19_FieldNamesAreUnion ==
    /\ [](merge_errors = {} =>
            KeysOf(merged_schema_map)
              = UNION { KeysOf(fut[f].res.val.schema_map) : f \in MergedFiles })
    /\ [][ MergeReturned =>
             LET to_add == fut[cur].res.val.schema_map
                 old == merged_schema_map
                 new == merged_schema_map'
             IN  /\ KeysOf(new) = KeysOf(old) \cup KeysOf(to_add)
                 /\ \A k \in KeysOf(to_add) \ KeysOf(old) :
                       EntryOf(new, k) = EntryOf(to_add, k)
                 /\ \A k \in KeysOf(old) \ KeysOf(to_add) :
                       EntryOf(new, k) = EntryOf(old, k) ]_vars

\* C19 witness: two non-empty files have been merged without a raise, the
\* second into a non-empty map; the global map holds x, made of both files'
\* entries, and y, which only one of them had.
C19_Witness ==
    /\ merge_errors = {}
    /\ Cardinality(MergedFiles) = 2
    /\ KeysOf(merged_schema_map) = {"x", "y"}
    /\ Len(EntryOf(merged_schema_map, "x")) = 2
    /\ Len(EntryOf(merged_schema_map, "y")) = 1

RECURSIVE Concat(_)
Concat(ss) == IF ss = <<>> THEN <<>> ELSE Head(ss) \o Concat(Tail(ss))

\* the lines written for the first n files, empty files counting for none
RECURSIVE WrittenLines(_)
WrittenLines(n) ==
    IF n = 0 THEN 0
    ELSE WrittenLines(n - 1)
           + (IF fut[n].res.val.empty_file THEN 0 ELSE fut[n].res.val.lines)

\* C20: the chunks are consecutive pieces of the file list, none longer than
\* the chunk size, that together make up the list; submissions follow the
\* list, each file at most once; and in a run where no worker fails, when
\* the run is through every file has been submitted exactly once and its
\* result drained exactly once, the last progress line counts as many files
\* as were discovered, and the line total is the sum of the written-line
\* counts of the non-empty files.
C20_EveryFileOnce ==
    /\ Concat(chunks) = files
    /\ \A k \in 1..Len(chunks) : Len(chunks[k]) \in 1..ChunkSize
    /\ Len(submitted) <= total_files
    /\ submitted = SubSeq(files, 1, Len(submitted))
    /\ \A j, k \in 1..Len(drained) : j # k => drained[j] # drained[k]
    /\ \A j \in 1..Len(drained) : InSeq(drained[j], submitted)
    /\ opc = "done" =>
          /\ submitted = files
          /\ Len(drained) = total_files
          /\ \A j \in 1..total_files : InSeq(files[j], drained)
          /\ progress = total_files
          /\ sum_lines = WrittenLines(total_files)

\* C20 witness: a run over three files in two chunks is through; the files
\* were not drained in submission order, one of them was empty, and lines
\* were written.
C20_Witness ==
    /\ opc = "done"
    /\ total_files = 3
    /\ Len(chunks) = 2
    /\ drained # files
    /\ \E f \in DOMAIN fut : fut[f].res.val.empty_file
    /\ sum_lines > 0
    /\ progress = 3

(***************************************************************************)
(* lib.sort_schema.  A schema is a list of field descriptors; a descriptor *)
(* is a dict whose key order json.load and json.dump preserve, here the    *)
(* sequence of its items [k, v] in that order.                             *)
(***************************************************************************)
JODict(items) == [t |-> "odict", v |-> items]

key_order == <<"name", "type", "mode", "description", "fields">>

\* k in field
HasKey(field, k) == \E j \in 1..Len(field.v) : field.v[j].k = k

\* field[k]
ItemOf(field, k) == field.v[CHOOSE j \in 1..Len(field.v) : field.v[j].k = k].v

\* field[k] = x for a key the descriptor has: the key keeps its place
SetItem(field, k, x) ==
    JODict([j \in 1..Len(field.v) |->
              IF field.v[j].k = k THEN [k |-> k, v |-> x] ELSE field.v[j]])

\* ord() of the one-character names used here
CodePoint(ch) == CASE ch = "B" -> 66 [] ch = "a" -> 97 [] ch = "b" -> 98

\* x["name"] < y["name"], as str compares
NameLess(x, y) == CodePoint(ItemOf(x, "name").v) < CodePoint(ItemOf(y, "name").v)

\* sorted(schema, key=lambda x: x["name"]): a stable sort
RECURSIVE sorted_by_name(_)
sorted_by_name(schema) ==
    IF schema = <<>> THEN <<>>
    ELSE LET s == sorted_by_name(SubSeq(schema, 1, Len(schema) - 1))
             x == schema[Len(schema)]
             n == Cardinality({ j \in 1..Len(s) : ~NameLess(x, s[j]) })
         IN  SubSeq(s, 1, n) \o <<x>> \o SubSeq(s, n + 1, Len(s))

\* {k: field[k] for k in key_order if k in field}
Reordered(field) ==
    LET present == SelectSeq(key_order, LAMBDA k : HasKey(field, k)) IN
    JODict([j \in 1..Len(present) |-> [k |-> present[j], v |-> ItemOf(field, present[j])]])

\* field.get("type") == "RECORD" and "fields" in field
IsRecordWithFields(field) ==
    /\ HasKey(field, "type")
    /\ ItemOf(field, "type") = JStr("RECORD")
    /\ HasKey(field, "fields")

\* sort_schema_func without the recursion into the fields of a RECORD
sort_schema_func_flat(schema) ==
    LET by_name == sorted_by_name(schema) IN
    [j \in 1..Len(by_name) |-> Reordered(by_name[j])]

\* lines 108-120
RECURSIVE sort_schema_func(_)
sort_schema_func(schema) ==
    LET by_name == sorted_by_name(schema)
        sorted_schema == [j \in 1..Len(by_name) |-> Reordered(by_name[j])]
    IN  [j \in 1..Len(sorted_schema) |->
           LET field == sorted_schema[j] IN
           IF IsRecordWithFields(field)
           THEN SetItem(field, "fields",
                        JList(sort_schema_func(ItemOf(field, "fields").v)))
           ELSE field]

(***************************************************************************)
(* Schemas sort_schema is applied to.                                      *)
(***************************************************************************)
MaxFields == 2

Item(k, x) == [k |-> k, v |-> x]

LeafFields ==
    { JODict(<<Item("type", JStr("STRING")), Item("name", JStr("b"))>>),
      JODict(<<Item("name", JStr("a")), Item("type", JStr("STRING"))>>),
      JODict(<<Item("mode", JStr("NULLABLE")), Item("name", JStr("B")),
               Item("type", JStr("INTEGER"))>>) }

\* a RECORD one level down, its fields out of order
InnerRecord ==
    JODict(<<Item("fields", JList(<<JODict(<<Item("name", JStr("b")), Item("type", JStr("STRING"))>>),
                                    JODict(<<Item("type", JStr("STRING")), Item("name", JStr("B"))>>)>>)),
             Item("name", JStr("a")), Item("type", JStr("RECORD"))>>)

NestedFields == LeafFields \cup {InnerRecord}

NestedLists ==
    {<<>>} \cup { <<x>> : x \in NestedFields } \cup { <<x, y>> : x, y \in NestedFields }

\* descriptors with a "fields" key, of type RECORD or not
WithFields ==
    { JODict(<<Item("fields", JList(fs)), Item("mode", JStr("REPEATED")),
               Item("name", JStr("a")), Item("type", JStr(ty))>>) :
        fs \in NestedLists, ty \in {"RECORD", "STRING"} }

Schemas == UNION { [1..n -> LeafFields \cup WithFields] : n \in 0..MaxFields }

\* the content of schema.json before sort_schema
InitSort ==
    /\ WorkerIdle
    /\ OrchIdle
    /\ obj \in { JList(sch) : sch \in Schemas }
    /\ obj0 = obj
    /\ call = [fn |-> "sort_schema"]
    /\ ret = NoRet

\* lines 122-131: the file is loaded, sorted and written back
SortSchema ==
    /\ call.fn = "sort_schema"
    /\ obj' = JList(sort_schema_func(obj.v))
    /\ obj0' = obj
    /\ ret' = Returned(Null)
    /\ UNCHANGED <<call, wvars, ovars>>

NextSort == SortSchema

SpecSort == InitSort /\ [][NextSort]_vars

(***************************************************************************)
(* Properties of sort_schema.                                              *)
(***************************************************************************)
\* where a key stands in name, type, mode, description, fields; 0 if nowhere
KeyRank(k) ==
    IF \E j \in 1..Len(key_order) : key_order[j] = k
    THEN CHOOSE j \in 1..Len(key_order) : key_order[j] = k
    ELSE 0

\* the descriptor's keys are among the five and stand in their order
KeysInOrder(field) ==
    /\ \A j \in 1..Len(field.v) : KeyRank(field.v[j].k) > 0
    /\ \A j \in 1..(Len(field.v) - 1) :
          KeyRank(field.v[j].k) < KeyRank(field.v[j + 1].k)

\* canonical form: at this level and at every level below a RECORD, the
\* fields are in the order of their names and every descriptor's keys are
\* in order
RECURSIVE Canonical(_)
Canonical(schema) ==
    /\ \A j \in 1..Len(schema) : KeysInOrder(schema[j])
    /\ \A j \in 1..(Len(schema) - 1) : ~NameLess(schema[j + 1], schema[j])
    /\ \A j \in 1..Len(schema) :
          IsRecordWithFields(schema[j]) => Canonical(ItemOf(schema[j], "fields").v)

\* C16: what sort_schema leaves in the file is in canonical form (fields in
\* the order of their names at the top level and at every level below a
\* RECORD, each descriptor's keys in the order name, type, mode,
\* description, fields); sorting a schema that was in canonical form leaves
\* it unchanged, and sorting the result once more gives the same result.
C16_SortIsIdempotent ==
    /\ ret.kind = "return" =>
          /\ Canonical(obj.v)
          /\ sort_schema_func(obj.v) = obj.v
    /\ Canonical(obj.v) => sort_schema_func(obj.v) = obj.v
    /\ (ret.kind = "return" /\ Canonical(obj0.v)) => obj = obj0

\* C16 witness: a schema whose top level, descriptor keys and nested RECORD
\* fields were all out of order has been sorted, two levels down.
C16_Witness ==
    /\ ret.kind = "return"
    /\ obj0 = JList(<<
         JODict(<<Item("type", JStr("STRING")), Item("name", JStr("b"))>>),
         JODict(<<Item("fields", JList(<<
                      JODict(<<Item("type", JStr("STRING")), Item("name", JStr("b"))>>),
                      InnerRecord>>)),
                  Item("mode", JStr("REPEATED")), Item("name", JStr("a")),
                  Item("type", JStr("RECORD"))>>) >>)
    /\ obj = JList(<<
         JODict(<<Item("name", JStr("a")), Item("type", JStr("RECORD")),
                  Item("mode", JStr("REPEATED")),
                  Item("fields", JList(<<
                      JODict(<<Item("name", JStr("a")), Item("type", JStr("RECORD")),
                               Item("fields", JList(<<
                                   JODict(<<Item("name", JStr("B")), Item("type", JStr("STRING"))>>),
                                   JODict(<<Item("name", JStr("b")), Item("type", JStr("STRING"))>>)>>))>>),
                      JODict(<<Item("name", JStr("b")), Item("type", JStr("STRING"))>>)>>))>>),
         JODict(<<Item("name", JStr("b")), Item("type", JStr("STRING"))>>) >>)

(***************************************************************************)
(* The end of a run.                                                       *)
(***************************************************************************)
\* C21: in every run in which no worker's future fails, schema.json is
\* eventually written; it is written only when the result of every file of
\* every chunk has been drained, from the global schema map as it then is,
\* and the global schema map is not merged into afterwards; this holds
\* whether or not merges raised.
C21_SchemaWrittenLast ==
    /\ <>(schema_json.written \/ \E f \in DOMAIN fut : fut[f].res.kind = "raise")
    /\ [](schema_json.written =>
            /\ opc = "done"
            /\ ~pool
            /\ Len(drained) = total_files
            /\ \A j \in 1..total_files : InSeq(files[j], drained)
            /\ schema_json.schema_map = merged_schema_map)
    /\ [][ schema_json.written =>
             (merged_schema_map' = merged_schema_map /\ schema_json' = schema_json) ]_vars

\* C21 witness: schema.json has been written at the end of a run over three
\* files in which a merge raised.
C21_Witness ==
    /\ schema_json.written
    /\ total_files = 3
    /\ merge_errors # {}
    /\ schema_json.schema_map # <<>>

(***************************************************************************)
(* The order of the cleaners.                                              *)
(***************************************************************************)
\* the record and the outcome after the first n cleaners of the list, each
\* applied to what the one before it left
RECURSIVE AfterCleaners(_, _, _)
AfterCleaners(o, cs, n) ==
    IF n = 0 THEN Effect(Returned(Null), o)
    ELSE LET before == AfterCleaners(o, cs, n - 1) IN
         IF before.out.kind = "raise" THEN before
         ELSE ApplyCleaner(before.obj, cs[n])

C23_OutputPathsDistinct ==
    \A f, g \in DOMAIN fut :
        (f # g /\ InSeq(f, futures) /\ InSeq(g, futures)) =>
            fut[f].output_path # fut[g].output_path

====
